---------------------------- MODULE Spec2Model ----------------------------
(***************************************************************************)
(* Model of the smart-manufacturing downtime pipeline:                     *)
(*   - the risk scorer (agents/agentsworkflow.py, ingest_sensor_logs),     *)
(*   - the Neo4j dependency graph store (graph/graphneo4j_manager.py),     *)
(*   - the five-stage LangGraph workflow and its driver (main.py).         *)
(*                                                                         *)
(* Units.  Sensor values, averages and thresholds are fixed-point numbers  *)
(* in hundredths (85.0 C is 8500, 8.5 mm/s is 850); scores, weights and    *)
(* the failure threshold are in hundredths too (0.75 is 75).  The float    *)
(* sums 0.35+0.35+0.20+0.10 followed by round(score, 2) give exactly the   *)
(* doubles k/100, so comparing hundredths is comparing the floats.         *)
(***************************************************************************)
EXTENDS Integers, Sequences, FiniteSets, Bags, TLC

(***************************************************************************)
(* Bounds of the explored inputs.                                          *)
(***************************************************************************)
MaxBlocks == 2      \* a sensor log is at most this many runs of equal rows
MaxDeps   == 4      \* DEPENDS_ON edges of an arbitrary graph
MaxFeeds  == 1      \* FEEDS_INTO edges of an arbitrary graph beside the fixture's
MaxRebuilds == 2    \* runs that rebuild the database after the first one

(***************************************************************************)
(* Program constants.                                                      *)
(***************************************************************************)
FAILURE_THRESHOLD            == 75      \* config.py:16   0.75
CRITICAL_TEMP_THRESHOLD      == 8500    \* config.py:17   85.0
CRITICAL_VIBRATION_THRESHOLD == 850     \* config.py:18   8.5
WINDOW                       == 24      \* tail(24)
TEMP_WEIGHT                  == 35      \* score += 0.35
VIBRATION_WEIGHT             == 35      \* score += 0.35
ERROR_WEIGHT                 == 20      \* score += 0.20
PRESSURE_WEIGHT              == 10      \* score += 0.10
ERROR_LIMIT                  == 3       \* error_count > 3
PRESSURE_LIMIT               == 8500    \* avg_pressure < 85
MIN_HOPS_AFFECTED            == 1       \* DEPENDS_ON*1..3
MIN_HOPS_LINES               == 0       \* DEPENDS_ON*0..3
MAX_HOPS                     == 3       \* DEPENDS_ON*1..3 and *0..3
SUMMARY_CHARS                == 400     \* [:400]

Null == "null"      \* a property the node does not have
END  == "END"       \* langgraph END

(***************************************************************************)
(* Generic helpers                                                         *)
(***************************************************************************)
Range(s) == {s[i] : i \in 1..Len(s)}

\* a name that is unbound (None) or bound to x (Some(x))
None == <<>>

Some(x) == <<x>>

Min(a, b) == IF a <= b THEN a ELSE b

\* the sum of a sequence of positive numbers: the sequence is the bag that
\* holds i exactly s[i] times
SumSeq(s) == BagCardinality(s)

\* Python round()/format of num/den to an integer number of units:
\* round half to even on the exact quotient (num >= 0, den > 0).
RoundDiv(num, den) ==
    LET q == num \div den
        r == num % den
    IN  IF 2 * r > den THEN q + 1
        ELSE IF 2 * r < den THEN q
        ELSE IF q % 2 = 0 THEN q ELSE q + 1

(***************************************************************************)
(* pandas operations used by the scorer                                    *)
(***************************************************************************)
\* Series.unique(): the distinct values in order of first appearance
RECURSIVE Unique(_)
Unique(col) ==
    IF col = <<>> THEN <<>>
    ELSE <<Head(col)>> \o
         Unique(SelectSeq(Tail(col), LAMBDA x : x # Head(col)))

Column(df, name) == [i \in 1..Len(df) |-> df[i][name]]

\* df[df["machine_id"] == machine_id]
RowsOf(df, machine_id) == SelectSeq(df, LAMBDA r : r.machine_id = machine_id)

\* DataFrame.tail(n): the last n rows, all rows when there are fewer
TailRows(df, n) ==
    IF Len(df) <= n THEN df ELSE SubSeq(df, Len(df) - n + 1, Len(df))

\* (data["error_code"] != "NONE").sum()
ErrorCount(data) == Len(SelectSeq(data, LAMBDA r : r.error_code # "NONE"))

(***************************************************************************)
(* Risk scorer: the body of the per-machine loop of ingest_sensor_logs.    *)
(* The mean of a column is kept as the pair (sum, n): "mean > t" is        *)
(* "sum > t * n".                                                          *)
(***************************************************************************)
\* variant: the whole history of the machine is averaged, not its last rows
Window_all(df, machine_id) == RowsOf(df, machine_id)

Window(df, machine_id) == TailRows(RowsOf(df, machine_id), WINDOW)

\* variant: an average equal to the temperature threshold fires
TempFired_nonstrict(data, cfg) ==
    SumSeq(Column(data, "temperature")) >= cfg.CRITICAL_TEMP_THRESHOLD * Len(data)

TempFired(data, cfg) ==
    SumSeq(Column(data, "temperature")) > cfg.CRITICAL_TEMP_THRESHOLD * Len(data)

VibrationFired(data, cfg) ==
    SumSeq(Column(data, "vibration")) > cfg.CRITICAL_VIBRATION_THRESHOLD * Len(data)

ErrorsFired(data) == ErrorCount(data) > ERROR_LIMIT

PressureFired(data) ==
    SumSeq(Column(data, "pressure")) < PRESSURE_LIMIT * Len(data)

\* f"{avg:.1f}": the mean in tenths
Fmt1(data, name) == RoundDiv(SumSeq(Column(data, name)), 10 * Len(data))

\* round(avg, 2): the mean in hundredths
Round2(data, name) == RoundDiv(SumSeq(Column(data, name)), Len(data))

\* variant: the pressure factor adds nothing to the score
ScoreOf_no_pressure(data, cfg) ==
      (IF TempFired(data, cfg)      THEN TEMP_WEIGHT      ELSE 0)
    + (IF VibrationFired(data, cfg) THEN VIBRATION_WEIGHT ELSE 0)
    + (IF ErrorsFired(data)         THEN ERROR_WEIGHT     ELSE 0)

ScoreOf(data, cfg) ==
      (IF TempFired(data, cfg)      THEN TEMP_WEIGHT      ELSE 0)
    + (IF VibrationFired(data, cfg) THEN VIBRATION_WEIGHT ELSE 0)
    + (IF ErrorsFired(data)         THEN ERROR_WEIGHT     ELSE 0)
    + (IF PressureFired(data)       THEN PRESSURE_WEIGHT  ELSE 0)

\* variant: the error check comes before the sensor checks
ReasonsOf_errors_first(data, cfg) ==
       (IF ErrorsFired(data)
          THEN << [factor |-> "Errors", value |-> ErrorCount(data)] >>
          ELSE <<>>)
    \o (IF TempFired(data, cfg)
          THEN << [factor |-> "High Temp", value |-> Fmt1(data, "temperature")] >>
          ELSE <<>>)
    \o (IF VibrationFired(data, cfg)
          THEN << [factor |-> "High Vibration", value |-> Fmt1(data, "vibration")] >>
          ELSE <<>>)
    \o (IF PressureFired(data)
          THEN << [factor |-> "Low Pressure", value |-> Fmt1(data, "pressure")] >>
          ELSE <<>>)

ReasonsOf(data, cfg) ==
       (IF TempFired(data, cfg)
          THEN << [factor |-> "High Temp", value |-> Fmt1(data, "temperature")] >>
          ELSE <<>>)
    \o (IF VibrationFired(data, cfg)
          THEN << [factor |-> "High Vibration", value |-> Fmt1(data, "vibration")] >>
          ELSE <<>>)
    \o (IF ErrorsFired(data)
          THEN << [factor |-> "Errors", value |-> ErrorCount(data)] >>
          ELSE <<>>)
    \o (IF PressureFired(data)
          THEN << [factor |-> "Low Pressure", value |-> Fmt1(data, "pressure")] >>
          ELSE <<>>)

\* variant: strict comparison with the failure threshold
IsFailing_strict(score, cfg) == score > cfg.FAILURE_THRESHOLD

IsFailing(score, cfg) == score >= cfg.FAILURE_THRESHOLD

Anomaly(machine_id, data, cfg) ==
    [ machine_id          |-> machine_id,
      failure_probability |-> ScoreOf(data, cfg),
      avg_temperature     |-> Round2(data, "temperature"),
      avg_vibration       |-> Round2(data, "vibration"),
      avg_pressure        |-> Round2(data, "pressure"),
      error_count         |-> ErrorCount(data),
      reasons             |-> ReasonsOf(data, cfg) ]

\* the loop over df["machine_id"].unique(): acc holds the three local
\* accumulators anomalies, failure_probability and failing_machines
RECURSIVE IngestLoop(_, _, _, _)
RECURSIVE IngestLoop_appends_all(_, _, _, _)

\* variant: the anomaly is appended for every machine, failing or not
IngestLoop_appends_all(df, ids, cfg, acc) ==
    IF ids = <<>> THEN acc
    ELSE LET machine_id == Head(ids)
             data       == Window(df, machine_id)
             score      == ScoreOf(data, cfg)
             acc1 == [acc EXCEPT
                        !.failure_probability =
                            [m \in DOMAIN @ \cup {machine_id} |->
                                IF m = machine_id THEN score ELSE @[m]],
                        !.anomalies = Append(@, Anomaly(machine_id, data, cfg))]
             acc2 == IF IsFailing(score, cfg)
                       THEN [acc1 EXCEPT !.failing_machines = Append(@, machine_id)]
                       ELSE acc1
         IN  IngestLoop_appends_all(df, Tail(ids), cfg, acc2)

IngestLoop(df, ids, cfg, acc) ==
    IF ids = <<>> THEN acc
    ELSE LET machine_id == Head(ids)
             data       == Window(df, machine_id)
             score      == ScoreOf(data, cfg)
             acc1 == [acc EXCEPT !.failure_probability =
                          [m \in DOMAIN @ \cup {machine_id} |->
                              IF m = machine_id THEN score ELSE @[m]]]
             acc2 == IF IsFailing(score, cfg)
                       THEN [acc1 EXCEPT
                               !.failing_machines = Append(@, machine_id),
                               !.anomalies = Append(@, Anomaly(machine_id, data, cfg))]
                       ELSE acc1
         IN  IngestLoop(df, Tail(ids), cfg, acc2)

EmptyAcc ==
    [anomalies |-> <<>>, failure_probability |-> <<>>, failing_machines |-> <<>>]

\* variant: the loop runs over the machines of the fleet, not over the
\* machines of the log
Ingest_fleet(df, cfg) ==
    IngestLoop(df, <<"M001", "M002", "M003", "M004", "M005">>, cfg, EmptyAcc)

Ingest(df, cfg) == IngestLoop(df, Unique(Column(df, "machine_id")), cfg, EmptyAcc)

(***************************************************************************)
(* Graph store.  nodes and edges are the contents of the Neo4j database:   *)
(* a node is identified by its position in nodes (Neo4j's internal         *)
(* identity, not the id property), an edge by its position in edges and    *)
(* it joins two node positions.  Results of a query without ORDER BY are   *)
(* bags of rows.  The edge properties impact, reason and sequence are read *)
(* by no query and are left out.                                           *)
(***************************************************************************)
MachineNode(id, name, type, plant, vendor, status, criticality) ==
    [label |-> "Machine", id |-> id, name |-> name, type |-> type,
     plant |-> plant, vendor |-> vendor, status |-> status,
     criticality |-> criticality]

LineNode(id, name, plant) ==
    [label |-> "ProductionLine", id |-> id, name |-> name, type |-> Null,
     plant |-> plant, vendor |-> Null, status |-> Null, criticality |-> Null]

\* the list machines of create_machines
machines ==
    << MachineNode("M001", "CNC Machine A", "CNC", "Plant_North", "Siemens", "Running", "High"),
       MachineNode("M002", "Conveyor Belt B", "Conveyor", "Plant_North", "ABB", "Degrading", "Critical"),
       MachineNode("M003", "Robotic Arm C", "Robot", "Plant_South", "FANUC", "Running", "High"),
       MachineNode("M004", "Hydraulic Press D", "Press", "Plant_South", "Bosch", "Running", "Medium"),
       MachineNode("M005", "Assembly Unit E", "Assembly", "Plant_North", "Siemens", "Running", "Critical") >>

\* the list lines of create_production_lines
lines ==
    << LineNode("PL001", "Engine Assembly Line", "Plant_North"),
       LineNode("PL002", "Body Welding Line", "Plant_South"),
       LineNode("PL003", "Paint Shop Line", "Plant_North") >>

\* the lists dependencies and feeds of create_relationships, as the
\* statements they are run as: (start label, start id, type, end label, end id)
Rel(a, type, bLabel, b) ==
    [a |-> a, type |-> type, bLabel |-> bLabel, b |-> b]

\* variant: the first dependency runs the other way
dependencies_reversed ==
    << Rel("M002", "DEPENDS_ON", "Machine", "M001"),
       Rel("M005", "DEPENDS_ON", "Machine", "M002"),
       Rel("M005", "DEPENDS_ON", "Machine", "M001"),
       Rel("M004", "DEPENDS_ON", "Machine", "M003") >>

dependencies ==
    << Rel("M001", "DEPENDS_ON", "Machine", "M002"),
       Rel("M005", "DEPENDS_ON", "Machine", "M002"),
       Rel("M005", "DEPENDS_ON", "Machine", "M001"),
       Rel("M004", "DEPENDS_ON", "Machine", "M003") >>

feeds ==
    << Rel("M001", "FEEDS_INTO", "ProductionLine", "PL001"),
       Rel("M002", "FEEDS_INTO", "ProductionLine", "PL001"),
       Rel("M005", "FEEDS_INTO", "ProductionLine", "PL001"),
       Rel("M003", "FEEDS_INTO", "ProductionLine", "PL002"),
       Rel("M004", "FEEDS_INTO", "ProductionLine", "PL002") >>

\* MATCH (n:label {id: id}): the positions of the matching nodes
Match(ns, label, id) ==
    {i \in 1..Len(ns) : ns[i].label = label /\ ns[i].id = id}

RECURSIVE SetToSeq(_)
SetToSeq(S) ==
    IF S = {} THEN <<>>
    ELSE LET x == CHOOSE y \in S : \A z \in S : y <= z
         IN  <<x>> \o SetToSeq(S \ {x})

\* MATCH (a:Machine {id: $a}) MATCH (b:... {id: $b}) CREATE (a)-[:type]->(b):
\* one new edge for every pair of matching nodes
RunCreateRel(ns, es, rel) ==
    LET as    == SetToSeq(Match(ns, "Machine", rel.a))
        bs    == SetToSeq(Match(ns, rel.bLabel, rel.b))
        pairs == [k \in 1..(Len(as) * Len(bs)) |->
                    [from |-> as[((k - 1) \div Len(bs)) + 1],
                     to   |-> bs[((k - 1) % Len(bs)) + 1],
                     type |-> rel.type]]
    IN  es \o pairs

\* the first n statements of rels, run in order on the edges es
RECURSIVE RunCreateRelsTo(_, _, _, _)
RunCreateRelsTo(ns, es, rels, n) ==
    IF n = 0 THEN es
    ELSE RunCreateRel(ns, RunCreateRelsTo(ns, es, rels, n - 1), rels[n])

RunCreateRels(ns, es, rels) == RunCreateRelsTo(ns, es, rels, Len(rels))

\* -[:DEPENDS_ON*k]->(f): the paths of exactly k DEPENDS_ON edges that end
\* in node f, as sequences of edge positions.  Cypher never uses a
\* relationship twice in one path; nodes may repeat.
RECURSIVE PathsTo(_, _, _)
PathsTo(es, f, k) ==
    LET dep == {e \in 1..Len(es) : es[e].type = "DEPENDS_ON"}
    IN  IF k = 1 THEN {<<e>> : e \in {d \in dep : es[d].to = f}}
        ELSE {q \in {<<e>> \o p : e \in dep, p \in PathsTo(es, f, k - 1)} :
                 /\ q[1] \notin Range(Tail(q))
                 /\ es[q[1]].to = es[q[2]].from}

\* MATCH (a:Machine)-[:DEPENDS_ON*lo..hi]->(f:Machine {id: $id}): one match
\* <<a, f, path>> for every path; the path of length 0 has a = f
DependsMatches(ns, es, id, lo, hi) ==
    LET fs == Match(ns, "Machine", id)
    IN  {<<f, f, <<>>>> : f \in {g \in fs : lo = 0}} \cup
        UNION {UNION {{<<es[p[1]].from, f, p>> :
                          p \in {q \in PathsTo(es, f, k) :
                                    ns[es[q[1]].from].label = "Machine"}}
                      : k \in (IF lo = 0 THEN 1 ELSE lo)..hi}
               : f \in fs}

\* the rows of a result: every match gives one row, equal rows are kept
RowsBag(row) ==
    [r \in {row[m] : m \in DOMAIN row} |->
        Cardinality({m \in DOMAIN row : row[m] = r})]

\* RETURN DISTINCT: equal rows are returned once
Distinct(bag) == [r \in DOMAIN bag |-> 1]

\* variant: the first query follows one hop more
AffectedRows_deeper(ns, es, machine_id) ==
    RowsBag([m \in DependsMatches(ns, es, machine_id, MIN_HOPS_AFFECTED, MAX_HOPS + 1) |->
                [affected_id   |-> ns[m[1]].id,
                 affected_name |-> ns[m[1]].name,
                 criticality   |-> ns[m[1]].criticality]])

\* the first query of get_failure_impact
AffectedRows(ns, es, machine_id) ==
    RowsBag([m \in DependsMatches(ns, es, machine_id, MIN_HOPS_AFFECTED, MAX_HOPS) |->
                [affected_id   |-> ns[m[1]].id,
                 affected_name |-> ns[m[1]].name,
                 criticality   |-> ns[m[1]].criticality]])

\* variant: the second query without DISTINCT
LineRows_nodistinct(ns, es, machine_id) ==
    LET ms == DependsMatches(ns, es, machine_id, MIN_HOPS_LINES, MAX_HOPS)
        fed == {<<m, e>> \in ms \X (1..Len(es)) :
                   /\ es[e].type = "FEEDS_INTO"
                   /\ es[e].from = m[1]
                   /\ ns[es[e].to].label = "ProductionLine"}
    IN  RowsBag([x \in fed |->
                    [line_name |-> ns[es[x[2]].to].name,
                     plant     |-> ns[es[x[2]].to].plant]])

\* the second query of get_failure_impact
LineRows(ns, es, machine_id) ==
    LET ms == DependsMatches(ns, es, machine_id, MIN_HOPS_LINES, MAX_HOPS)
        fed == {<<m, e>> \in ms \X (1..Len(es)) :
                   /\ es[e].type = "FEEDS_INTO"
                   /\ es[e].from = m[1]
                   /\ ns[es[e].to].label = "ProductionLine"}
    IN  Distinct(RowsBag([x \in fed |->
                    [line_name |-> ns[es[x[2]].to].name,
                     plant     |-> ns[es[x[2]].to].plant]]))

get_failure_impact(ns, es, machine_id) ==
    [failing_machine   |-> machine_id,
     affected_machines |-> AffectedRows(ns, es, machine_id),
     impacted_lines    |-> LineRows(ns, es, machine_id)]

\* variant: MATCH (a)-[r:DEPENDS_ON]->(b)
get_full_graph_summary_depends_only(ns, es) ==
    RowsBag([e \in {d \in 1..Len(es) : es[d].type = "DEPENDS_ON"} |->
                [from_name    |-> ns[es[e].from].name,
                 relationship |-> es[e].type,
                 to_name      |-> ns[es[e].to].name]])

\* MATCH (a)-[r]->(b) RETURN a.name, type(r), b.name
get_full_graph_summary(ns, es) ==
    RowsBag([e \in 1..Len(es) |->
                [from_name    |-> ns[es[e].from].name,
                 relationship |-> es[e].type,
                 to_name      |-> ns[es[e].to].name]])

(***************************************************************************)
(* Texts of the text-generation service.  A text is the first len          *)
(* characters of a named body, so that slicing is computed and not assumed. *)
(***************************************************************************)
Text(body, len) == [body |-> body, len |-> len]

EmptyText == Text("", 0)

\* text[:n]
Slice(text, n) == [text EXCEPT !.len = Min(@, n)]

(***************************************************************************)
(* Report written by save_report: the three narratives and one risk line   *)
(* per machine of failure_probability.                                     *)
(***************************************************************************)
REPORT_CRITICAL == 75      \* prob >= 0.75
REPORT_WARNING  == 40      \* prob >= 0.40

RiskTier(prob) ==
    IF prob >= REPORT_CRITICAL THEN "CRITICAL"
    ELSE IF prob >= REPORT_WARNING THEN "WARNING" ELSE "NORMAL"

\* the status shown by the dashboard for a risk score
STATUS_CRITICAL == 75      \* risk >= 0.75

STATUS_WARNING  == 40      \* risk >= 0.40

get_status(risk) ==
    IF risk >= STATUS_CRITICAL THEN "CRITICAL"
    ELSE IF risk >= STATUS_WARNING THEN "WARNING" ELSE "HEALTHY"

ReportOf(st) ==
    [executive_summary   |-> st.executive_summary,
     root_cause_analysis |-> st.root_cause_analysis,
     maintenance_plan    |-> st.maintenance_plan,
     risk |-> [m \in DOMAIN st.failure_probability |->
                  [prob |-> st.failure_probability[m],
                   tier |-> RiskTier(st.failure_probability[m])]]]

(***************************************************************************)
(* The compiled workflow of build_workflow: entry point and edges.         *)
(***************************************************************************)
Stages ==
    {"ingest_logs", "graph_impact", "root_cause", "maintenance_plan", "exec_summary"}

\* variant: the edge out of ingest_logs skips graph_impact
build_workflow_skips ==
    [entry |-> "ingest_logs",
     edges |-> [n \in Stages |->
                  CASE n = "ingest_logs"      -> "root_cause"
                    [] n = "graph_impact"     -> "root_cause"
                    [] n = "root_cause"       -> "maintenance_plan"
                    [] n = "maintenance_plan" -> "exec_summary"
                    [] n = "exec_summary"     -> END]]

\* variant: the workflow ends after maintenance_plan
build_workflow_ends_early ==
    [entry |-> "ingest_logs",
     edges |-> [n \in Stages |->
                  CASE n = "ingest_logs"      -> "graph_impact"
                    [] n = "graph_impact"     -> "root_cause"
                    [] n = "root_cause"       -> "maintenance_plan"
                    [] n = "maintenance_plan" -> END
                    [] n = "exec_summary"     -> END]]

build_workflow ==
    [entry |-> "ingest_logs",
     edges |-> [n \in Stages |->
                  CASE n = "ingest_logs"      -> "graph_impact"
                    [] n = "graph_impact"     -> "root_cause"
                    [] n = "root_cause"       -> "maintenance_plan"
                    [] n = "maintenance_plan" -> "exec_summary"
                    [] n = "exec_summary"     -> END]]

(***************************************************************************)
(* Inputs                                                                  *)
(***************************************************************************)
LogMachines == {"M001", "M002"}

RunLengths == {3, 24}

\* a healthy and a degraded reading, for the runs of the whole pipeline
PipelineReadings ==
    { [temperature |-> 8400, vibration |-> 840, pressure |-> 8600, error_code |-> "NONE"],
      [temperature |-> 8600, vibration |-> 860, pressure |-> 8400, error_code |-> "E001"] }

\* the sensor columns the scorer reads: the healthy reading, and every
\* reading with an error code whose values lie just below or just above the
\* thresholds (a run of 3 has 3 errors, a run of 24 has 24)
Readings ==
    PipelineReadings \cup
    [temperature : {8400, 8600}, vibration : {840, 860},
     pressure : {8400, 8600}, error_code : {"E001"}]

SensorRow(machine_id, r) ==
    [machine_id |-> machine_id, temperature |-> r.temperature,
     vibration |-> r.vibration, pressure |-> r.pressure,
     error_code |-> r.error_code]

\* n equal rows of one machine
Blocks(R) ==
    {[i \in 1..n |-> SensorRow(m, r)] : m \in LogMachines, r \in R, n \in RunLengths}

\* the logs made of at most k blocks
RECURSIVE LogsOf(_, _)
LogsOf(R, k) ==
    IF k = 0 THEN {<<>>}
    ELSE LET shorter == LogsOf(R, k - 1)
         IN  shorter \cup {l \o b : l \in shorter, b \in Blocks(R)}

\* values of the dashboard's threshold slider (percent)
Thresholds == {70, 75}

Responses == {Text("A", 400), Text("B", 401)}

\* generate_maintenance_history(): the columns the pipeline reads
maintenance_history ==
    << [machine_id |-> "M001", maintenance_date |-> "2024-10-15", type |-> "Preventive"],
       [machine_id |-> "M002", maintenance_date |-> "2024-09-20", type |-> "Corrective"],
       [machine_id |-> "M002", maintenance_date |-> "2024-11-01", type |-> "Corrective"],
       [machine_id |-> "M003", maintenance_date |-> "2024-10-28", type |-> "Preventive"],
       [machine_id |-> "M004", maintenance_date |-> "2024-11-10", type |-> "Preventive"] >>

\* the graph a complete rebuild leaves in the database
FixtureNodes == machines \o lines

FixtureEdges == RunCreateRels(FixtureNodes, <<>>, dependencies \o feeds)

(***************************************************************************)
(* State                                                                   *)
(***************************************************************************)
VARIABLES
    Config,        \* the class attributes of config.Config that the run reads
    driver,        \* the Neo4j driver of the manager: "none", "open", "closed"
    nodes, edges,  \* contents of the Neo4j database
    workflow,      \* the compiled workflow, None before build_workflow
    state,         \* the ManufacturingState handed from stage to stage
    final_state,   \* main's name final_state, None while it is unbound
    report,        \* the report file, None while it is not written
    pc,            \* the statement of main / the node of the workflow to run next
    failure,       \* the external call that raised, "none" if none did
    executed,      \* how often each stage has been entered
    queries,       \* the read queries sent to the graph store, in order
    llm_calls,     \* the requests sent to the text-generation service, in order
    impact,        \* result of a direct call of get_failure_impact
    locals,        \* locals of a dashboard run: the slider's threshold and the
                   \* loop variables of ingest_sensor_logs; None in a run of main
    summary,       \* result of a direct call of get_full_graph_summary
    rebuilds       \* how many runs have rebuilt the database before this one

vars == <<Config, driver, nodes, edges, workflow, state, final_state, report,
          pc, failure, executed, queries, llm_calls, impact, locals, summary,
          rebuilds>>

DefaultConfig ==
    [FAILURE_THRESHOLD            |-> FAILURE_THRESHOLD,
     CRITICAL_TEMP_THRESHOLD      |-> CRITICAL_TEMP_THRESHOLD,
     CRITICAL_VIBRATION_THRESHOLD |-> CRITICAL_VIBRATION_THRESHOLD]

\* the dict initial_state of main
initial_state(sensor_logs) ==
    [sensor_logs         |-> sensor_logs,
     maintenance_history |-> maintenance_history,
     anomalies           |-> <<>>,
     failing_machines    |-> <<>>,
     failure_probability |-> <<>>,
     impact_analysis     |-> <<>>,
     graph_context       |-> <<>>,
     root_cause_analysis |-> EmptyText,
     maintenance_plan    |-> EmptyText,
     executive_summary   |-> EmptyText,
     current_step        |-> "start",
     errors              |-> <<>>]

\* what does not depend on the inputs
InitRest ==
    /\ final_state = None
    /\ report = None
    /\ failure = "none"
    /\ executed = [n \in Stages |-> 0]
    /\ queries = <<>>
    /\ llm_calls = <<>>
    /\ impact = None
    /\ locals = None
    /\ summary = None
    /\ rebuilds = 0

\* a run of main: the sensor log is generated, the threshold is the
\* default or the slider's value, the database holds what an earlier run left
Init ==
    /\ Config \in {[DefaultConfig EXCEPT !.FAILURE_THRESHOLD = t] : t \in Thresholds}
    /\ \E db \in {<<<<>>, <<>>>>, <<FixtureNodes, FixtureEdges>>} :
          nodes = db[1] /\ edges = db[2]
    /\ state \in {initial_state(l) : l \in LogsOf(PipelineReadings, MaxBlocks)}
    /\ pc = "Neo4jManager"
    /\ driver = "none"
    /\ workflow = None
    /\ InitRest

\* an exception leaves main: no later statement runs
Raise(call) ==
    /\ pc' = "raised"
    /\ failure' = call

(***************************************************************************)
(* main: building the graph                                                *)
(***************************************************************************)
\* neo4j = Neo4jManager()
Neo4jManager ==
    /\ pc = "Neo4jManager"
    /\ driver' = "open"
    /\ pc' = "clear_database"
    /\ UNCHANGED <<Config, nodes, edges, workflow, state, final_state, report,
                   failure, executed, queries, llm_calls, impact, locals,
                   summary, rebuilds>>

\* variant: MATCH (n:Machine) DETACH DELETE n
clear_database_machines_only ==
    /\ pc = "clear_database"
    /\ \/ /\ nodes' = SelectSeq(nodes, LAMBDA n : n.label # "Machine")
          /\ edges' = <<>>
          /\ pc' = "create_machines"
          /\ UNCHANGED failure
       \/ /\ Raise("clear_database")
          /\ UNCHANGED <<nodes, edges>>
    /\ UNCHANGED <<Config, driver, workflow, state, final_state, report,
                   executed, queries, llm_calls, impact, locals,
                   summary, rebuilds>>

\* MATCH (n) DETACH DELETE n
clear_database ==
    /\ pc = "clear_database"
    /\ \/ /\ nodes' = <<>>
          /\ edges' = <<>>
          /\ pc' = "create_machines"
          /\ UNCHANGED failure
       \/ /\ Raise("clear_database")
          /\ UNCHANGED <<nodes, edges>>
    /\ UNCHANGED <<Config, driver, workflow, state, final_state, report,
                   executed, queries, llm_calls, impact, locals,
                   summary, rebuilds>>

\* one CREATE per machine; the statement after the first k raises when k < 5
create_machines ==
    /\ pc = "create_machines"
    /\ \E k \in 0..Len(machines) :
          /\ nodes' = nodes \o SubSeq(machines, 1, k)
          /\ IF k = Len(machines)
               THEN pc' = "create_production_lines" /\ UNCHANGED failure
               ELSE Raise("create_machines")
    /\ UNCHANGED <<Config, driver, edges, workflow, state, final_state, report,
                   executed, queries, llm_calls, impact, locals,
                   summary, rebuilds>>

create_production_lines ==
    /\ pc = "create_production_lines"
    /\ \E k \in 0..Len(lines) :
          /\ nodes' = nodes \o SubSeq(lines, 1, k)
          /\ IF k = Len(lines)
               THEN pc' = "create_relationships" /\ UNCHANGED failure
               ELSE Raise("create_production_lines")
    /\ UNCHANGED <<Config, driver, edges, workflow, state, final_state, report,
                   executed, queries, llm_calls, impact, locals,
                   summary, rebuilds>>

create_relationships ==
    /\ pc = "create_relationships"
    /\ LET rels == dependencies \o feeds
       IN  \E k \in 0..Len(rels) :
              /\ edges' = RunCreateRels(nodes, edges, SubSeq(rels, 1, k))
              /\ IF k = Len(rels)
                   THEN pc' = "build_workflow" /\ UNCHANGED failure
                   ELSE Raise("create_relationships")
    /\ UNCHANGED <<Config, driver, nodes, workflow, state, final_state, report,
                   executed, queries, llm_calls, impact, locals,
                   summary, rebuilds>>

\* agent.build_workflow() and the start of workflow.invoke(initial_state)
BuildWorkflow ==
    /\ pc = "build_workflow"
    /\ workflow' = Some(build_workflow)
    /\ pc' = build_workflow.entry
    /\ UNCHANGED <<Config, driver, nodes, edges, state, final_state, report,
                   failure, executed, queries, llm_calls, impact, locals,
                   summary, rebuilds>>

(***************************************************************************)
(* The five stages.  A stage runs when the workflow has reached its node;  *)
(* when it returns, the workflow moves along the node's edge.              *)
(***************************************************************************)
Enter(node) ==
    /\ pc = node
    /\ workflow # None
    /\ executed' = [executed EXCEPT ![node] = @ + 1]

Leave(node) == pc' = workflow[1].edges[node]

ingest_sensor_logs ==
    /\ Enter("ingest_logs")
    /\ LET acc == Ingest(state.sensor_logs, Config)
       IN  state' = [state EXCEPT
                       !.anomalies           = acc.anomalies,
                       !.failing_machines    = acc.failing_machines,
                       !.failure_probability = acc.failure_probability,
                       !.current_step        = "sensor_done"]
    /\ Leave("ingest_logs")
    /\ UNCHANGED <<Config, driver, nodes, edges, workflow, final_state, report,
                   failure, queries, llm_calls, impact, locals,
                   summary, rebuilds>>

Query(op, arg, ok) == [op |-> op, arg |-> arg, ok |-> ok]

\* variant: the mapping is stored in the state inside the loop
analyze_graph_impact_partial ==
    /\ Enter("graph_impact")
    /\ LET fm == state.failing_machines
           n  == Len(fm)
           impact_analysis(k) ==
               [m \in {fm[i] : i \in 1..k} |-> get_failure_impact(nodes, edges, m)]
           sent(k) == [i \in 1..k |-> Query("get_failure_impact", fm[i], TRUE)]
       IN  \E ok \in 0..(n + 1) :
              \/ /\ ok < n                      \* line 101 raises
                 /\ queries' = queries \o sent(ok) \o
                                  <<Query("get_failure_impact", fm[ok + 1], FALSE)>>
                 /\ state' = [state EXCEPT !.impact_analysis = impact_analysis(ok)]
                 /\ Raise("get_failure_impact")
              \/ /\ ok = n                      \* line 108 raises
                 /\ queries' = queries \o sent(n) \o
                                  <<Query("get_full_graph_summary", Null, FALSE)>>
                 /\ state' = [state EXCEPT !.impact_analysis = impact_analysis(n)]
                 /\ Raise("get_full_graph_summary")
              \/ /\ ok = n + 1
                 /\ queries' = queries \o sent(n) \o
                                  <<Query("get_full_graph_summary", Null, TRUE)>>
                 /\ state' = [state EXCEPT
                                !.impact_analysis = impact_analysis(n),
                                !.graph_context   = get_full_graph_summary(nodes, edges),
                                !.current_step    = "graph_done"]
                 /\ Leave("graph_impact")
                 /\ UNCHANGED failure
    /\ UNCHANGED <<Config, driver, nodes, edges, workflow, final_state, report,
                   llm_calls, impact, locals,
                   summary, rebuilds>>

\* variant: the loop runs over the failing machines from the last to the first
analyze_graph_impact_reversed ==
    /\ Enter("graph_impact")
    /\ LET fm == state.failing_machines
           n  == Len(fm)
           impact_analysis(k) ==
               [m \in {fm[n + 1 - i] : i \in 1..k} |-> get_failure_impact(nodes, edges, m)]
           sent(k) == [i \in 1..k |-> Query("get_failure_impact", fm[n + 1 - i], TRUE)]
       IN  \E ok \in 0..(n + 1) :
              \/ /\ ok < n
                 /\ queries' = queries \o sent(ok) \o
                                  <<Query("get_failure_impact", fm[n - ok], FALSE)>>
                 /\ UNCHANGED state
                 /\ Raise("get_failure_impact")
              \/ /\ ok = n
                 /\ queries' = queries \o sent(n) \o
                                  <<Query("get_full_graph_summary", Null, FALSE)>>
                 /\ state' = [state EXCEPT !.impact_analysis = impact_analysis(n)]
                 /\ Raise("get_full_graph_summary")
              \/ /\ ok = n + 1
                 /\ queries' = queries \o sent(n) \o
                                  <<Query("get_full_graph_summary", Null, TRUE)>>
                 /\ state' = [state EXCEPT
                                !.impact_analysis = impact_analysis(n),
                                !.graph_context   = get_full_graph_summary(nodes, edges),
                                !.current_step    = "graph_done"]
                 /\ Leave("graph_impact")
                 /\ UNCHANGED failure
    /\ UNCHANGED <<Config, driver, nodes, edges, workflow, final_state, report,
                   llm_calls, impact, locals,
                   summary, rebuilds>>

\* ok is the number of graph queries that return: the loop sends one
\* get_failure_impact per failing machine, then get_full_graph_summary
analyze_graph_impact ==
    /\ Enter("graph_impact")
    /\ LET fm == state.failing_machines
           n  == Len(fm)
           impact_analysis(k) ==
               [m \in {fm[i] : i \in 1..k} |-> get_failure_impact(nodes, edges, m)]
           sent(k) == [i \in 1..k |-> Query("get_failure_impact", fm[i], TRUE)]
       IN  \E ok \in 0..(n + 1) :
              \/ /\ ok < n                      \* line 101 raises
                 /\ queries' = queries \o sent(ok) \o
                                  <<Query("get_failure_impact", fm[ok + 1], FALSE)>>
                 /\ UNCHANGED state
                 /\ Raise("get_failure_impact")
              \/ /\ ok = n                      \* line 108 raises
                 /\ queries' = queries \o sent(n) \o
                                  <<Query("get_full_graph_summary", Null, FALSE)>>
                 /\ state' = [state EXCEPT !.impact_analysis = impact_analysis(n)]
                 /\ Raise("get_full_graph_summary")
              \/ /\ ok = n + 1
                 /\ queries' = queries \o sent(n) \o
                                  <<Query("get_full_graph_summary", Null, TRUE)>>
                 /\ state' = [state EXCEPT
                                !.impact_analysis = impact_analysis(n),
                                !.graph_context   = get_full_graph_summary(nodes, edges),
                                !.current_step    = "graph_done"]
                 /\ Leave("graph_impact")
                 /\ UNCHANGED failure
    /\ UNCHANGED <<Config, driver, nodes, edges, workflow, final_state, report,
                   llm_calls, impact, locals,
                   summary, rebuilds>>

\* self.llm.invoke([SystemMessage(role), HumanMessage(prompt)])
LlmCall(role, prompt, response) ==
    [role |-> role, prompt |-> prompt, response |-> response]

RootCausePrompt(st) ==
    [anomalies   |-> st.anomalies,
     maintenance |-> SelectSeq(st.maintenance_history,
                        LAMBDA r : r.machine_id \in Range(st.failing_machines)),
     graph       |-> st.graph_context]

identify_root_cause ==
    /\ Enter("root_cause")
    /\ \/ \E response \in Responses :
             /\ llm_calls' = Append(llm_calls,
                    LlmCall("predictive maintenance expert",
                            RootCausePrompt(state), Some(response)))
             /\ state' = [state EXCEPT !.root_cause_analysis = response,
                                       !.current_step = "rootcause_done"]
             /\ Leave("root_cause")
             /\ UNCHANGED failure
       \/ /\ llm_calls' = Append(llm_calls,
                    LlmCall("predictive maintenance expert",
                            RootCausePrompt(state), None))
          /\ UNCHANGED state
          /\ Raise("llm.invoke")
    /\ UNCHANGED <<Config, driver, nodes, edges, workflow, final_state, report,
                   queries, impact, locals,
                   summary, rebuilds>>

MaintenancePlanPrompt(st) ==
    [root_cause |-> st.root_cause_analysis,
     impact     |-> st.impact_analysis]

\* variant: the exception of llm.invoke is caught and the workflow goes on
generate_maintenance_plan_swallows ==
    /\ Enter("maintenance_plan")
    /\ \/ \E response \in Responses :
             /\ llm_calls' = Append(llm_calls,
                    LlmCall("maintenance planning expert",
                            MaintenancePlanPrompt(state), Some(response)))
             /\ state' = [state EXCEPT !.maintenance_plan = response,
                                       !.current_step = "plan_done"]
             /\ Leave("maintenance_plan")
             /\ UNCHANGED failure
       \/ /\ llm_calls' = Append(llm_calls,
                    LlmCall("maintenance planning expert",
                            MaintenancePlanPrompt(state), None))
          /\ UNCHANGED state
          /\ Leave("maintenance_plan")
          /\ failure' = "llm.invoke"
    /\ UNCHANGED <<Config, driver, nodes, edges, workflow, final_state, report,
                   queries, impact, locals,
                   summary, rebuilds>>

generate_maintenance_plan ==
    /\ Enter("maintenance_plan")
    /\ \/ \E response \in Responses :
             /\ llm_calls' = Append(llm_calls,
                    LlmCall("maintenance planning expert",
                            MaintenancePlanPrompt(state), Some(response)))
             /\ state' = [state EXCEPT !.maintenance_plan = response,
                                       !.current_step = "plan_done"]
             /\ Leave("maintenance_plan")
             /\ UNCHANGED failure
       \/ /\ llm_calls' = Append(llm_calls,
                    LlmCall("maintenance planning expert",
                            MaintenancePlanPrompt(state), None))
          /\ UNCHANGED state
          /\ Raise("llm.invoke")
    /\ UNCHANGED <<Config, driver, nodes, edges, workflow, final_state, report,
                   queries, impact, locals,
                   summary, rebuilds>>

\* variant: the two narratives go into the prompt whole
ExecutiveSummaryPrompt_whole(st) ==
    [count            |-> Len(st.failing_machines),
     impacted_lines   |-> UNION {{r.line_name :
                                    r \in DOMAIN st.impact_analysis[m].impacted_lines}
                                 : m \in DOMAIN st.impact_analysis},
     failing_machines |-> st.failing_machines,
     root_cause       |-> st.root_cause_analysis,
     maintenance_plan |-> st.maintenance_plan]

ExecutiveSummaryPrompt(st) ==
    [count            |-> Len(st.failing_machines),
     impacted_lines   |-> UNION {{r.line_name :
                                    r \in DOMAIN st.impact_analysis[m].impacted_lines}
                                 : m \in DOMAIN st.impact_analysis},
     failing_machines |-> st.failing_machines,
     root_cause       |-> Slice(st.root_cause_analysis, SUMMARY_CHARS),
     maintenance_plan |-> Slice(st.maintenance_plan, SUMMARY_CHARS)]

\* variant: the shortened narratives of the prompt are stored in the state
generate_executive_summary_truncates ==
    /\ Enter("exec_summary")
    /\ \/ \E response \in Responses :
             /\ llm_calls' = Append(llm_calls,
                    LlmCall("reports for plant managers",
                            ExecutiveSummaryPrompt(state), Some(response)))
             /\ state' = [state EXCEPT
                            !.root_cause_analysis = Slice(@, SUMMARY_CHARS),
                            !.maintenance_plan    = Slice(@, SUMMARY_CHARS),
                            !.executive_summary   = response,
                            !.current_step        = "complete"]
             /\ Leave("exec_summary")
             /\ UNCHANGED failure
       \/ /\ llm_calls' = Append(llm_calls,
                    LlmCall("reports for plant managers",
                            ExecutiveSummaryPrompt(state), None))
          /\ UNCHANGED state
          /\ Raise("llm.invoke")
    /\ UNCHANGED <<Config, driver, nodes, edges, workflow, final_state, report,
                   queries, impact, locals,
                   summary, rebuilds>>

generate_executive_summary ==
    /\ Enter("exec_summary")
    /\ \/ \E response \in Responses :
             /\ llm_calls' = Append(llm_calls,
                    LlmCall("reports for plant managers",
                            ExecutiveSummaryPrompt(state), Some(response)))
             /\ state' = [state EXCEPT !.executive_summary = response,
                                       !.current_step = "complete"]
             /\ Leave("exec_summary")
             /\ UNCHANGED failure
       \/ /\ llm_calls' = Append(llm_calls,
                    LlmCall("reports for plant managers",
                            ExecutiveSummaryPrompt(state), None))
          /\ UNCHANGED state
          /\ Raise("llm.invoke")
    /\ UNCHANGED <<Config, driver, nodes, edges, workflow, final_state, report,
                   queries, impact, locals,
                   summary, rebuilds>>

(***************************************************************************)
(* main: after the workflow                                                *)
(***************************************************************************)
\* final_state = workflow.invoke(initial_state) returns; the prints
InvokeReturns ==
    /\ pc = END
    /\ final_state' = Some(state)
    /\ pc' = "save_report"
    /\ UNCHANGED <<Config, driver, nodes, edges, workflow, state, report,
                   failure, executed, queries, llm_calls, impact, locals,
                   summary, rebuilds>>

save_report ==
    /\ pc = "save_report"
    /\ \/ /\ report' = Some(ReportOf(final_state[1]))
          /\ pc' = "close"
          /\ UNCHANGED failure
       \/ /\ Raise("save_report")
          /\ UNCHANGED report
    /\ UNCHANGED <<Config, driver, nodes, edges, workflow, state, final_state,
                   executed, queries, llm_calls, impact, locals,
                   summary, rebuilds>>

close ==
    /\ pc = "close"
    /\ driver' = "closed"
    /\ pc' = "done"
    /\ UNCHANGED <<Config, nodes, edges, workflow, state, final_state, report,
                   failure, executed, queries, llm_calls, impact, locals,
                   summary, rebuilds>>

Next ==
    \/ Neo4jManager
    \/ clear_database
    \/ create_machines
    \/ create_production_lines
    \/ create_relationships
    \/ BuildWorkflow
    \/ ingest_sensor_logs
    \/ analyze_graph_impact
    \/ identify_root_cause
    \/ generate_maintenance_plan
    \/ generate_executive_summary
    \/ InvokeReturns
    \/ save_report
    \/ close

Spec == Init /\ [][Next]_vars

(***************************************************************************)
(* The scorer on arbitrary logs: ingest_sensor_logs applied to every log   *)
(* of at most MaxBlocks runs over all readings.                            *)
(***************************************************************************)
InitScore ==
    /\ Config \in {[DefaultConfig EXCEPT !.FAILURE_THRESHOLD = t] : t \in Thresholds}
    /\ nodes = FixtureNodes
    /\ edges = FixtureEdges
    /\ state \in {initial_state(l) : l \in LogsOf(Readings, MaxBlocks)}
    /\ pc = build_workflow.entry
    /\ driver = "open"
    /\ workflow = Some(build_workflow)
    /\ InitRest

NextScore == ingest_sensor_logs

SpecScore == InitScore /\ [][NextScore]_vars

(***************************************************************************)
(* The impact query on arbitrary graphs: the fixture's nodes, at most      *)
(* MaxDeps DEPENDS_ON edges between any machines, the fixture's FEEDS_INTO *)
(* edges and at most MaxFeeds further ones.                                *)
(***************************************************************************)
RECURSIVE SubsetsUpTo(_, _)
SubsetsUpTo(S, k) ==
    IF k = 0 THEN {{}}
    ELSE LET smaller == SubsetsUpTo(S, k - 1)
         IN  smaller \cup {T \cup {x} : T \in smaller, x \in S}

PickSeq(seq, S) ==
    LET idx == SetToSeq(S) IN [i \in 1..Len(idx) |-> seq[idx[i]]]

NodeOf(id) == CHOOSE i \in 1..Len(FixtureNodes) : FixtureNodes[i].id = id

Edge(a, type, b) == [from |-> NodeOf(a), to |-> NodeOf(b), type |-> type]

MachineIds == {machines[i].id : i \in 1..Len(machines)}

\* every possible dependency of one machine on another one
DepPairs ==
    LET n   == Len(machines)
        all == [k \in 1..(n * n) |->
                  Edge(machines[((k - 1) \div n) + 1].id, "DEPENDS_ON",
                       machines[((k - 1) % n) + 1].id)]
    IN  SelectSeq(all, LAMBDA e : e.from # e.to)

ExtraFeeds ==
    << Edge("M001", "FEEDS_INTO", "PL003"),
       Edge("M003", "FEEDS_INTO", "PL003"),
       Edge("M002", "FEEDS_INTO", "PL001") >>

FixtureFeeds == SelectSeq(FixtureEdges, LAMBDA e : e.type = "FEEDS_INTO")

ArbitraryEdges ==
    {PickSeq(DepPairs, D) \o FixtureFeeds \o PickSeq(ExtraFeeds, F) :
        D \in SubsetsUpTo(1..Len(DepPairs), MaxDeps),
        F \in SubsetsUpTo(1..Len(ExtraFeeds), MaxFeeds)}

InitGraph ==
    /\ Config = DefaultConfig
    /\ nodes = FixtureNodes
    /\ edges \in ArbitraryEdges
    /\ state = initial_state(<<>>)
    /\ pc = "query"
    /\ driver = "open"
    /\ workflow = None
    /\ InitRest

\* neo4j.get_failure_impact(machine_id) called directly
QueryFailureImpact ==
    /\ pc = "query"
    /\ \E machine_id \in MachineIds :
          impact' = Some(get_failure_impact(nodes, edges, machine_id))
    /\ pc' = "queried"
    /\ UNCHANGED <<Config, driver, nodes, edges, workflow, state, final_state,
                   report, failure, executed, queries, llm_calls, locals,
                   summary, rebuilds>>

\* variant: the query marks the machine it was asked about as failing
QueryFailureImpactAgain_marks ==
    /\ pc = "queried"
    /\ LET machine_id == impact[1].failing_machine
       IN  /\ impact' = Append(impact, get_failure_impact(nodes, edges, machine_id))
           /\ nodes' = [i \in 1..Len(nodes) |->
                          IF nodes[i].label = "Machine" /\ nodes[i].id = machine_id
                            THEN [nodes[i] EXCEPT !.status = "Failing"]
                            ELSE nodes[i]]
    /\ pc' = "queried_twice"
    /\ UNCHANGED <<Config, driver, edges, workflow, state, final_state,
                   report, failure, executed, queries, llm_calls, locals,
                   summary, rebuilds>>

\* neo4j.get_failure_impact(machine_id) called once more with the same id
QueryFailureImpactAgain ==
    /\ pc = "queried"
    /\ impact' = Append(impact,
                     get_failure_impact(nodes, edges, impact[1].failing_machine))
    /\ pc' = "queried_twice"
    /\ UNCHANGED <<Config, driver, nodes, edges, workflow, state, final_state,
                   report, failure, executed, queries, llm_calls, locals,
                   summary, rebuilds>>

\* neo4j.get_full_graph_summary() called directly
QueryGraphSummary ==
    /\ pc = "query"
    /\ summary' = Some(get_full_graph_summary(nodes, edges))
    /\ pc' = "summarised"
    /\ UNCHANGED <<Config, driver, nodes, edges, workflow, state, final_state,
                   report, failure, executed, queries, llm_calls, impact, locals,
                   rebuilds>>

NextGraph ==
    \/ QueryFailureImpact
    \/ QueryFailureImpactAgain
    \/ QueryGraphSummary

SpecGraph == InitGraph /\ [][NextGraph]_vars

(***************************************************************************)
(* The run of main with any value of FAILURE_THRESHOLD in config.py: the   *)
(* class attributes are what the operator wrote there, main reads them     *)
(* without looking at them.                                                *)
(***************************************************************************)
\* values written in config.py: below 0.50, the default, above 0.95
ConfigValues == {45, FAILURE_THRESHOLD, 100}

InitConfig ==
    /\ Config \in {[DefaultConfig EXCEPT !.FAILURE_THRESHOLD = t] : t \in ConfigValues}
    /\ nodes = <<>>
    /\ edges = <<>>
    /\ state \in {initial_state(l) : l \in LogsOf(PipelineReadings, MaxBlocks)}
    /\ pc = "Neo4jManager"
    /\ driver = "none"
    /\ workflow = None
    /\ InitRest

SpecConfig == InitConfig /\ [][Next]_vars

(***************************************************************************)
(* A run of the dashboard (app.py).  Every session's script runs in the    *)
(* same process and assigns the slider's value to the class attribute      *)
(* Config.FAILURE_THRESHOLD, which the scorer reads once per machine of    *)
(* its loop and nowhere else: the loop is modelled one iteration at a time, *)
(* and another session's assignment may come before any iteration.         *)
(***************************************************************************)
\* values of the slider in the two sessions
SliderValues == {FAILURE_THRESHOLD, 90}

InitDashboard ==
    /\ Config = DefaultConfig
    /\ nodes = FixtureNodes
    /\ edges = FixtureEdges
    /\ state \in {initial_state(l) : l \in LogsOf(PipelineReadings, MaxBlocks)}
    /\ pc = "set_threshold"
    /\ driver = "none"
    /\ workflow = None
    /\ InitRest

\* Config.FAILURE_THRESHOLD = threshold / 100, this run
SetThreshold ==
    /\ pc = "set_threshold"
    /\ \E threshold \in SliderValues :
          /\ Config' = [Config EXCEPT !.FAILURE_THRESHOLD = threshold]
          /\ locals' = Some([threshold |-> threshold, ids |-> <<>>, acc |-> EmptyAcc])
    /\ pc' = "Neo4jManager"
    /\ UNCHANGED <<driver, nodes, edges, workflow, state, final_state, report,
                   failure, executed, queries, llm_calls, impact,
                   summary, rebuilds>>

\* Config.FAILURE_THRESHOLD = threshold / 100, the run of another session
OtherSessionSetsThreshold ==
    /\ pc = "ingest_loop"
    /\ \E threshold \in SliderValues \ {Config.FAILURE_THRESHOLD} :
          Config' = [Config EXCEPT !.FAILURE_THRESHOLD = threshold]
    /\ UNCHANGED <<driver, nodes, edges, workflow, state, final_state, report,
                   pc, failure, executed, queries, llm_calls, impact, locals,
                   summary, rebuilds>>

\* ingest_sensor_logs up to the head of its loop
IngestBegin ==
    /\ Enter("ingest_logs")
    /\ locals # None
    /\ locals' = Some([locals[1] EXCEPT
                         !.ids = Unique(Column(state.sensor_logs, "machine_id")),
                         !.acc = EmptyAcc])
    /\ pc' = "ingest_loop"
    /\ UNCHANGED <<Config, driver, nodes, edges, workflow, state, final_state,
                   report, failure, queries, llm_calls, impact,
                   summary, rebuilds>>

\* one iteration of the loop, with the Config of this moment
IngestIteration ==
    /\ pc = "ingest_loop"
    /\ locals[1].ids # <<>>
    /\ locals' = Some([locals[1] EXCEPT
                         !.ids = Tail(@),
                         !.acc = IngestLoop(state.sensor_logs,
                                            <<Head(locals[1].ids)>>, Config, @)])
    /\ UNCHANGED <<Config, driver, nodes, edges, workflow, state, final_state,
                   report, pc, failure, executed, queries, llm_calls, impact,
                   summary, rebuilds>>

\* the four assignments to state after the loop
IngestEnd ==
    /\ pc = "ingest_loop"
    /\ locals[1].ids = <<>>
    /\ state' = [state EXCEPT
                    !.anomalies           = locals[1].acc.anomalies,
                    !.failing_machines    = locals[1].acc.failing_machines,
                    !.failure_probability = locals[1].acc.failure_probability,
                    !.current_step        = "sensor_done"]
    /\ Leave("ingest_logs")
    /\ UNCHANGED <<Config, driver, nodes, edges, workflow, final_state, report,
                   failure, executed, queries, llm_calls, impact, locals,
                   summary, rebuilds>>

NextDashboard ==
    \/ SetThreshold
    \/ OtherSessionSetsThreshold
    \/ Neo4jManager
    \/ clear_database
    \/ create_machines
    \/ create_production_lines
    \/ create_relationships
    \/ BuildWorkflow
    \/ IngestBegin
    \/ IngestIteration
    \/ IngestEnd
    \/ analyze_graph_impact
    \/ identify_root_cause
    \/ generate_maintenance_plan
    \/ generate_executive_summary
    \/ InvokeReturns
    \/ save_report
    \/ close

SpecDashboard == InitDashboard /\ [][NextDashboard]_vars

(***************************************************************************)
(* Rebuilds of the database one after another: every run of main or of the *)
(* dashboard rebuilds the graph in the database the run before it left,    *)
(* whether that run completed its rebuild or stopped in the middle of it.  *)
(* The rest of a run only reads the graph.                                 *)
(***************************************************************************)
InitRebuild ==
    /\ Config = DefaultConfig
    /\ nodes = <<>>
    /\ edges = <<>>
    /\ state = initial_state(<<>>)
    /\ pc = "Neo4jManager"
    /\ driver = "none"
    /\ workflow = None
    /\ InitRest

\* the run is over and the next one starts, on the same database
NextRun ==
    /\ pc \in {"build_workflow", "raised"}
    /\ rebuilds < MaxRebuilds
    /\ rebuilds' = rebuilds + 1
    /\ pc' = "Neo4jManager"
    /\ driver' = "none"
    /\ failure' = "none"
    /\ UNCHANGED <<Config, nodes, edges, workflow, state, final_state, report,
                   executed, queries, llm_calls, impact, locals, summary>>

NextRebuild ==
    \/ Neo4jManager
    \/ clear_database
    \/ create_machines
    \/ create_production_lines
    \/ create_relationships
    \/ NextRun

SpecRebuild == InitRebuild /\ [][NextRebuild]_vars

(***************************************************************************)
(* The run of main under the scheduling of a sequential program: a         *)
(* statement that can run does run.                                        *)
(***************************************************************************)
LiveSpec == Spec /\ WF_vars(Next)

(***************************************************************************)
(* Properties                                                              *)
(***************************************************************************)
StepOrder ==
    <<"start", "sensor_done", "graph_done", "rootcause_done", "plan_done", "complete">>

StageOrder ==
    <<"ingest_logs", "graph_impact", "root_cause", "maintenance_plan", "exec_summary">>

StepIndex(step) == CHOOSE i \in 1..Len(StepOrder) : StepOrder[i] = step

\* C1: current_step only moves from one marker to the next one of
\* start, sensor_done, graph_done, rootcause_done, plan_done, complete; every
\* stage is entered at most once and only when the stages before it have
\* written their markers, whatever failing_machines is.
C1_LinearStages ==
    /\ [](state.current_step \in Range(StepOrder))
    /\ [](\A k \in 1..Len(StageOrder) :
            /\ executed[StageOrder[k]] <= 1
            /\ executed[StageOrder[k]] = 1 => StepIndex(state.current_step) >= k
            /\ StepIndex(state.current_step) > k => executed[StageOrder[k]] = 1)
    /\ [][state'.current_step # state.current_step =>
            StepIndex(state'.current_step) = StepIndex(state.current_step) + 1]_vars

C1_Witness ==
    /\ state.current_step = "complete"
    /\ state.failing_machines = <<>>
    /\ \A n \in Stages : executed[n] = 1

AllBelowThreshold ==
    \A m \in DOMAIN state.failure_probability :
        state.failure_probability[m] < Config.FAILURE_THRESHOLD

Completed ==
    /\ state.current_step = "complete"
    /\ Len(llm_calls) = 3
    /\ state.root_cause_analysis = llm_calls[1].response[1]
    /\ state.maintenance_plan    = llm_calls[2].response[1]
    /\ state.executive_summary   = llm_calls[3].response[1]
    /\ AllBelowThreshold =>
          DOMAIN state.impact_analysis = {} /\ state.failing_machines = <<>>

\* C2: a run in which no graph-store query and no text-generation call (and
\* no other external call) fails reaches current_step = "complete" with the
\* three narratives equal to the service's three responses; when no machine
\* reaches the threshold, impact_analysis and failing_machines are empty then.
C2_ReachesComplete == <>(failure # "none" \/ Completed)

C2_Witness ==
    /\ Completed
    /\ failure = "none"
    /\ AllBelowThreshold
    /\ DOMAIN state.failure_probability # {}
    /\ pc = "done"

(***************************************************************************)
(* The scorer's contract, stated on the raw log.                           *)
(***************************************************************************)
LogMachineIds(log) == {log[i].machine_id : i \in 1..Len(log)}

FirstIndex(log, m) ==
    CHOOSE i \in 1..Len(log) :
        /\ log[i].machine_id = m
        /\ \A j \in 1..(i - 1) : log[j].machine_id # m

\* the positions of the last 24 readings of m (of all, when there are fewer)
WindowIdx(log, m) ==
    {i \in 1..Len(log) :
        /\ log[i].machine_id = m
        /\ Cardinality({j \in (i + 1)..Len(log) : log[j].machine_id = m}) < 24}

Total(log, I, name) == BagCardinality([i \in I |-> log[i][name]])

ErrorsIn(log, I) == Cardinality({i \in I : log[i].error_code # "NONE"})

\* the four factors of the claim, in hundredths
ExpectedScore(log, m) ==
    LET I == WindowIdx(log, m)
    IN    (IF Total(log, I, "temperature") > 8500 * Cardinality(I) THEN 35 ELSE 0)
        + (IF Total(log, I, "vibration") > 850 * Cardinality(I) THEN 35 ELSE 0)
        + (IF ErrorsIn(log, I) > 3 THEN 20 ELSE 0)
        + (IF Total(log, I, "pressure") < 8500 * Cardinality(I) THEN 10 ELSE 0)

\* C3: after ingest_sensor_logs a machine is in failing_machines iff its
\* failure_probability is >= the failure threshold (equality counts), and
\* failing_machines is in order of first appearance in the log, without
\* duplicates.
C3_FailingIffThreshold ==
    state.current_step = "sensor_done" =>
        LET fp  == state.failure_probability
            fm  == state.failing_machines
            log == state.sensor_logs
        IN  /\ Range(fm) \subseteq DOMAIN fp
            /\ \A m \in DOMAIN fp :
                  m \in Range(fm) <=> fp[m] >= Config.FAILURE_THRESHOLD
            /\ \A i, j \in 1..Len(fm) :
                  i < j => /\ fm[i] # fm[j]
                           /\ FirstIndex(log, fm[i]) < FirstIndex(log, fm[j])

C3_Witness ==
    /\ state.current_step = "sensor_done"
    /\ state.failing_machines = <<"M002", "M001">>
    /\ state.failure_probability["M002"] = Config.FAILURE_THRESHOLD

\* C4: every machine with a reading gets the sum of the weights of exactly
\* the factors that fired (strict comparisons 85.0, 8.5, 3 errors, 85), a
\* value between 0 and 1.
C4_ScoreIsWeightedSum ==
    state.current_step = "sensor_done" =>
        \A m \in LogMachineIds(state.sensor_logs) :
            /\ m \in DOMAIN state.failure_probability
            /\ state.failure_probability[m] = ExpectedScore(state.sensor_logs, m)
            /\ state.failure_probability[m] \in 0..100

\* an average temperature exactly at the threshold, 3 errors or fewer
C4_Witness ==
    /\ state.current_step = "sensor_done"
    /\ \E m \in DOMAIN state.failure_probability :
          LET I == WindowIdx(state.sensor_logs, m)
          IN  /\ Total(state.sensor_logs, I, "temperature") = 8500 * Cardinality(I)
              /\ Total(state.sensor_logs, I, "vibration") > 850 * Cardinality(I)
              /\ state.failure_probability[m] = 55

(***************************************************************************)
(* The impact query's contract, stated on the dependency relation.         *)
(***************************************************************************)
DepRel ==
    {<<nodes[edges[e].from].id, nodes[edges[e].to].id>> :
        e \in {d \in 1..Len(edges) : edges[d].type = "DEPENDS_ON"}}

FeedRel ==
    {<<nodes[edges[e].from].id, nodes[edges[e].to].name>> :
        e \in {d \in 1..Len(edges) : edges[d].type = "FEEDS_INTO"}}

Compose(R, S) ==
    {<<x[1][1], x[2][2]>> : x \in {y \in R \X S : y[1][2] = y[2][1]}}

\* the pairs joined by a chain of exactly k DEPENDS_ON edges
RECURSIVE Chain(_)
Chain(k) == IF k = 1 THEN DepRel ELSE Compose(Chain(k - 1), DepRel)

\* the machines with a chain of length 1, 2 or 3 to x
AtRisk(x) ==
    LET R1 == DepRel
        R2 == Compose(R1, R1)
        R3 == Compose(R2, R1)
    IN  {p[1] : p \in {q \in R1 \cup R2 \cup R3 : q[2] = x}}

\* C5: the machines in affected_machines are exactly those with a chain of
\* 1, 2 or 3 DEPENDS_ON edges to the failing machine.
C5_AffectedWithinThreeHops ==
    impact # None =>
        {r.affected_id : r \in DOMAIN impact[1].affected_machines}
            = AtRisk(impact[1].failing_machine)

\* a machine is reported, and another one only has a chain of length 4
C5_Witness ==
    /\ impact # None
    /\ DOMAIN impact[1].affected_machines # {}
    /\ \E y \in MachineIds :
          /\ <<y, impact[1].failing_machine>> \in Chain(4)
          /\ y \notin AtRisk(impact[1].failing_machine)

ExpectedLines(x) ==
    {p[2] : p \in {q \in FeedRel : q[1] \in AtRisk(x) \cup {x}}}

\* C6: impacted_lines holds exactly the lines fed by the failing machine or
\* by a machine with a chain of 1..3 edges to it, each line once.
C6_ImpactedLines ==
    impact # None =>
        LET rows     == impact[1].impacted_lines
            expected == ExpectedLines(impact[1].failing_machine)
        IN  /\ {r.line_name : r \in DOMAIN rows} = expected
            /\ \A r \in DOMAIN rows : rows[r] = 1
            /\ Cardinality(DOMAIN rows) = Cardinality(expected)

\* a line fed by two machines at risk, and a fed line that is not impacted
C6_Witness ==
    /\ impact # None
    /\ LET x == impact[1].failing_machine
       IN  /\ \E p, q \in FeedRel :
                 /\ p[2] = q[2] /\ p[1] # q[1]
                 /\ {p[1], q[1]} \subseteq AtRisk(x) \cup {x}
           /\ \E p \in FeedRel : p[2] \notin ExpectedLines(x)
           /\ DOMAIN impact[1].impacted_lines # {}

\* C7: every affected machine appears once in affected_machines, also when
\* it reaches the failing machine by several chains.
C7_AffectedIsSet ==
    \A m \in DOMAIN state.impact_analysis :
        LET rows == state.impact_analysis[m].affected_machines
        IN  /\ \A r \in DOMAIN rows : rows[r] = 1
            /\ BagCardinality(rows) = Cardinality({r.affected_id : r \in DOMAIN rows})

\* clear_database, create_machines, create_production_lines and
\* create_relationships have all returned
Rebuilt == pc = "build_workflow" \/ workflow # None

\* C8: after the rebuild of the fixture, get_failure_impact("M002") names
\* M002, the affected machines M001 and M005 and the line Engine Assembly Line.
C8_FixtureImpactOfM002 ==
    Rebuilt =>
        LET r == get_failure_impact(nodes, edges, "M002")
        IN  /\ r.failing_machine = "M002"
            /\ {row.affected_id : row \in DOMAIN r.affected_machines} = {"M001", "M005"}
            /\ {row.line_name : row \in DOMAIN r.impacted_lines} = {"Engine Assembly Line"}

C8_Witness ==
    /\ Rebuilt
    /\ state.current_step = "graph_done"
    /\ "M002" \in DOMAIN state.impact_analysis
    /\ {row.affected_name : row \in DOMAIN state.impact_analysis["M002"].affected_machines}
          = {"CNC Machine A", "Assembly Unit E"}

RunFailed ==
    /\ pc = "raised"
    /\ failure \in {"get_failure_impact", "get_full_graph_summary", "llm.invoke"}

\* the marker of the last stage that returned, when the stage entered last
\* has raised: one marker per stage entered before it
LastCompleted == StepOrder[Cardinality({n \in Stages : executed[n] = 1})]

\* C9: after a graph-store or text-generation failure the caller holds the
\* partial pipeline state: the scores and anomalies of the completed stages,
\* empty narratives from the failed stage on, and current_step at the marker
\* of the last completed stage.
C9_PartialStateInspectable ==
    RunFailed =>
        /\ final_state # None
        /\ LET seen   == final_state[1]
               scored == Ingest(seen.sensor_logs, Config)
           IN  /\ seen.failure_probability = scored.failure_probability
               /\ seen.failing_machines = scored.failing_machines
               /\ seen.anomalies = scored.anomalies
               /\ seen.current_step = LastCompleted
               /\ executed["root_cause"] = 1 /\ seen.current_step = "graph_done"
                     => seen.root_cause_analysis = EmptyText
               /\ seen.current_step \in {"sensor_done", "graph_done", "rootcause_done"}
                     => seen.maintenance_plan = EmptyText
               /\ seen.executive_summary = EmptyText

GraphFailed == failure \in {"get_failure_impact", "get_full_graph_summary"}

NoNarrative ==
    /\ llm_calls = <<>>
    /\ \A n \in {"root_cause", "maintenance_plan", "exec_summary"} : executed[n] = 0

\* C10 as stated: after a failed graph query impact_analysis and
\* graph_context are still empty, current_step is sensor_done and no
\* narrative stage runs.
C10_NothingStoredOnGraphFailure ==
    GraphFailed =>
        /\ DOMAIN state.impact_analysis = {}
        /\ state.graph_context = <<>>
        /\ state.current_step = "sensor_done"
        /\ NoNarrative

\* C10 amended: a failed graph query ends the run at once: it is the last
\* query sent and the only one that failed, the queries before it are the
\* failing machines in order, current_step stays sensor_done, graph_context
\* stays empty and no narrative stage runs.  When get_failure_impact failed,
\* impact_analysis is still empty; when get_full_graph_summary failed,
\* impact_analysis already holds the result of every failing machine.
C10_GraphFailureAborts ==
    GraphFailed =>
        LET fm == state.failing_machines
            n  == Len(queries)
        IN  /\ pc = "raised"
            /\ state.current_step = "sensor_done"
            /\ state.graph_context = <<>>
            /\ NoNarrative
            /\ executed["graph_impact"] = 1
            /\ n >= 1 /\ ~queries[n].ok
            /\ \A i \in 1..(n - 1) :
                  queries[i] = Query("get_failure_impact", fm[i], TRUE)
            /\ failure = "get_failure_impact" =>
                  /\ n <= Len(fm)
                  /\ queries[n] = Query("get_failure_impact", fm[n], FALSE)
                  /\ DOMAIN state.impact_analysis = {}
            /\ failure = "get_full_graph_summary" =>
                  /\ n = Len(fm) + 1
                  /\ queries[n] = Query("get_full_graph_summary", Null, FALSE)
                  /\ DOMAIN state.impact_analysis = Range(fm)
                  /\ \A m \in Range(fm) :
                        state.impact_analysis[m].failing_machine = m

\* the second of two failing machines could not be queried
C10_Witness ==
    /\ failure = "get_failure_impact"
    /\ Len(state.failing_machines) = 2
    /\ Len(queries) = 2
    /\ queries[1].ok

(***************************************************************************)
(* The calls of the text-generation service.                               *)
(***************************************************************************)
NarrativeRoles ==
    <<"predictive maintenance expert", "maintenance planning expert",
      "reports for plant managers">>

NarrativeStages == <<"root_cause", "maintenance_plan", "exec_summary">>

\* C11: at most three calls of the text-generation service, the k-th one by
\* the k-th narrative stage (root cause, maintenance plan, executive
\* summary), each stage calling at most once; a failed call is the last call
\* of the run: it is not repeated, no later stage calls, and current_step
\* never becomes "complete".
C11_LlmCallsOnceInOrder ==
    LET n == Len(llm_calls)
    IN  /\ n <= 3
        /\ \A k \in 1..n :
              /\ llm_calls[k].role = NarrativeRoles[k]
              /\ executed[NarrativeStages[k]] = 1
              /\ llm_calls[k].response = None => k = n
        /\ \A k \in (n + 1)..3 : executed[NarrativeStages[k]] = 0
        /\ (n >= 1 /\ llm_calls[n].response = None) =>
              /\ pc = "raised"
              /\ state.current_step # "complete"
              /\ final_state = None

\* the second call failed: two calls were made and the run is over
C11_Witness ==
    /\ Len(llm_calls) = 2
    /\ llm_calls[1].response # None
    /\ llm_calls[2].response = None
    /\ failure = "llm.invoke"
    /\ state.current_step = "rootcause_done"

\* the run of main is over: it returned, or an exception left it
RunEnded == pc \in {"done", "raised"}

\* C12: when the run is over, on whatever path, the connection opened by
\* Neo4jManager() has been closed.
C12_ConnectionReleased == RunEnded => driver = "closed"

\* the documented range of failure_threshold: 0.50 to 0.95
THRESHOLD_MIN == 50

THRESHOLD_MAX == 95

ValidConfig == Config.FAILURE_THRESHOLD \in THRESHOLD_MIN..THRESHOLD_MAX

\* C13: with a failure threshold outside 0.50..0.95 the pipeline does not
\* start: the workflow is not built and no stage runs.
C13_InvalidConfigRejected ==
    ~ValidConfig => /\ workflow = None
                    /\ \A n \in Stages : executed[n] = 0

\* C14: the machines of one run are all compared with the failure threshold
\* this run set before it started: after the scoring stage a machine is in
\* failing_machines iff its score reaches the slider's value of this run.
C14_ThresholdFixedDuringRun ==
    state.current_step # "start" =>
        \A m \in DOMAIN state.failure_probability :
            m \in Range(state.failing_machines)
                <=> state.failure_probability[m] >= locals[1].threshold

(***************************************************************************)
(* The fields of the pipeline state each stage assigns.                    *)
(***************************************************************************)
OwnFields ==
    [n \in Stages |->
        CASE n = "ingest_logs" ->
                 {"anomalies", "failing_machines", "failure_probability", "current_step"}
          [] n = "graph_impact" ->
                 {"impact_analysis", "graph_context", "current_step"}
          [] n = "root_cause"       -> {"root_cause_analysis", "current_step"}
          [] n = "maintenance_plan" -> {"maintenance_plan", "current_step"}
          [] n = "exec_summary"     -> {"executive_summary", "current_step"}]

\* C15: a step of a stage changes no field of the state but the stage's own,
\* and no other step changes the state at all; so sensor_logs and
\* maintenance_history are never written and a filled field is never reset
\* by a later stage.
C15_StagesWriteOwnFields ==
    [][ /\ \A n \in Stages :
              executed'[n] # executed[n] =>
                  \A f \in DOMAIN state :
                      state'[f] # state[f] => f \in OwnFields[n]
        /\ executed' = executed => state' = state ]_vars

\* every stage has written, on a log with a failing machine
C15_Witness ==
    /\ state.current_step = "complete"
    /\ state.anomalies # <<>>
    /\ DOMAIN state.impact_analysis # {}
    /\ state.root_cause_analysis = Text("B", 401)
    /\ state.maintenance_plan = Text("B", 401)
    /\ state.executive_summary # EmptyText

GraphStageDone == state.current_step \notin {"start", "sensor_done"}

\* C16: when analyze_graph_impact has completed, impact_analysis maps exactly
\* the failing machines, each to the result of get_failure_impact for it;
\* the queries of the run are one get_failure_impact per failing machine in
\* the order of failing_machines, followed by the one get_full_graph_summary,
\* whose result is graph_context.
C16_OneQueryPerFailingMachine ==
    GraphStageDone =>
        LET fm == state.failing_machines
        IN  /\ DOMAIN state.impact_analysis = Range(fm)
            /\ \A m \in Range(fm) :
                  /\ state.impact_analysis[m] = get_failure_impact(nodes, edges, m)
                  /\ state.impact_analysis[m].failing_machine = m
            /\ Len(queries) = Len(fm) + 1
            /\ \A i \in 1..Len(fm) :
                  queries[i] = Query("get_failure_impact", fm[i], TRUE)
            /\ queries[Len(fm) + 1] = Query("get_full_graph_summary", Null, TRUE)
            /\ state.graph_context = get_full_graph_summary(nodes, edges)
            /\ BagCardinality(state.graph_context) = Len(edges)

\* two failing machines, M002 seen first
C16_Witness ==
    /\ state.current_step = "graph_done"
    /\ state.failing_machines = <<"M002", "M001">>
    /\ Len(queries) = 3

\* C17: after ingest_sensor_logs the keys of failure_probability are exactly
\* the machines with a reading in the log; a machine of the fleet without
\* one has no score, and the stage has reached sensor_done all the same.
C17_AbsentMachineSkipped ==
    executed["ingest_logs"] = 1 =>
        /\ state.current_step = "sensor_done"
        /\ DOMAIN state.failure_probability = LogMachineIds(state.sensor_logs)
        /\ Range(state.failing_machines) \subseteq LogMachineIds(state.sensor_logs)
        /\ \A i \in 1..Len(state.anomalies) :
              state.anomalies[i].machine_id \in LogMachineIds(state.sensor_logs)

\* M002 has readings, M001 has none
C17_Witness ==
    /\ state.current_step = "sensor_done"
    /\ LogMachineIds(state.sensor_logs) = {"M002"}
    /\ DOMAIN state.failure_probability = {"M002"}

\* the machines of the plant (the Machine nodes of the graph) that have no
\* reading in the log
SkippedMachines ==
    {nodes[i].id : i \in {j \in 1..Len(nodes) : nodes[j].label = "Machine"}}
        \ LogMachineIds(state.sensor_logs)

\* C18: after the scoring stage state.errors has an entry for each machine
\* that was skipped because it has no reading.
C18_DataGapRecorded ==
    executed["ingest_logs"] = 1 =>
        Len(state.errors) >= Cardinality(SkippedMachines)

(***************************************************************************)
(* Logs that agree with a log on the last 24 readings of machine m.        *)
(***************************************************************************)
CountOf(log, m) == Cardinality({i \in 1..Len(log) : log[i].machine_id = m})

\* a degraded and a healthy reading
DegradedReading ==
    [temperature |-> 8600, vibration |-> 860, pressure |-> 8400, error_code |-> "E001"]

HealthyReading ==
    [temperature |-> 8400, vibration |-> 840, pressure |-> 8600, error_code |-> "NONE"]

\* four equal readings of one machine
FourRows(machine_id, r) == [i \in 1..4 |-> SensorRow(machine_id, r)]

\* older readings of m put before the log (they agree on the last 24 when m
\* already has 24), readings of other machines put before or after it or
\* taken out of it
SameWindowLogs(log, m) ==
    LET old   == {FourRows(m, r) : r \in {DegradedReading, HealthyReading}}
        other == {FourRows(o, DegradedReading) : o \in LogMachines \ {m}}
    IN       {b \o log : b \in IF CountOf(log, m) >= 24 THEN old ELSE {}}
        \cup {b \o log : b \in other}
        \cup {log \o b : b \in other}
        \cup {SelectSeq(log, LAMBDA r : r.machine_id = m)}

AnomaliesOf(anomalies, m) == SelectSeq(anomalies, LAMBDA a : a.machine_id = m)

\* C19: the score and the reasons of m are the same for every log that
\* agrees with the scored log on the last 24 readings of m, whatever the
\* older readings of m and the readings of the other machines are.
C19_ScoreDependsOnWindowOnly ==
    state.current_step = "sensor_done" =>
        \A m \in LogMachineIds(state.sensor_logs) :
            \A other \in SameWindowLogs(state.sensor_logs, m) :
                LET there == Ingest(other, Config)
                IN  /\ there.failure_probability[m] = state.failure_probability[m]
                    /\ AnomaliesOf(there.anomalies, m) = AnomaliesOf(state.anomalies, m)
                    /\ ReasonsOf(Window(other, m), Config)
                          = ReasonsOf(Window(state.sensor_logs, m), Config)

\* a failing machine with 24 recent readings and older, healthy ones
C19_Witness ==
    /\ state.current_step = "sensor_done"
    /\ CountOf(state.sensor_logs, "M001") > 24
    /\ "M001" \in Range(state.failing_machines)
    /\ state.sensor_logs[1].machine_id = "M001"
    /\ state.sensor_logs[1].temperature < 8500

(***************************************************************************)
(* The reasons of a machine, stated on the raw log.                        *)
(***************************************************************************)
FactorOrder == <<"High Temp", "High Vibration", "Errors", "Low Pressure">>

\* the factors that fired on the last 24 readings of m
FiredFactors(log, m) ==
    LET I == WindowIdx(log, m)
    IN  {f \in Range(FactorOrder) :
            CASE f = "High Temp"      -> Total(log, I, "temperature") > 8500 * Cardinality(I)
              [] f = "High Vibration" -> Total(log, I, "vibration") > 850 * Cardinality(I)
              [] f = "Errors"         -> ErrorsIn(log, I) > 3
              [] f = "Low Pressure"   -> Total(log, I, "pressure") < 8500 * Cardinality(I)}

FactorIndex(f) == CHOOSE i \in 1..Len(FactorOrder) : FactorOrder[i] = f

\* one entry per fired factor and no other, in the order of FactorOrder
ReasonsInOrder(reasons, fired) ==
    /\ Len(reasons) = Cardinality(fired)
    /\ {reasons[i].factor : i \in 1..Len(reasons)} = fired
    /\ \A i, j \in 1..Len(reasons) :
          i < j => FactorIndex(reasons[i].factor) < FactorIndex(reasons[j].factor)

\* C20: the reasons computed for a machine of the log, and those stored in
\* the anomaly of a failing machine, have one entry per fired factor and none
\* for the others, in the order temperature, vibration, errors, pressure.
C20_ReasonsInFixedOrder ==
    state.current_step = "sensor_done" =>
        /\ \A m \in LogMachineIds(state.sensor_logs) :
              ReasonsInOrder(ReasonsOf(Window(state.sensor_logs, m), Config),
                             FiredFactors(state.sensor_logs, m))
        /\ \A i \in 1..Len(state.anomalies) :
              ReasonsInOrder(state.anomalies[i].reasons,
                             FiredFactors(state.sensor_logs, state.anomalies[i].machine_id))

\* a failing machine whose errors fired and whose pressure did not, and a
\* machine on which only errors and pressure fired
C20_Witness ==
    /\ state.current_step = "sensor_done"
    /\ \E i \in 1..Len(state.anomalies) :
          {state.anomalies[i].reasons[k].factor :
              k \in 1..Len(state.anomalies[i].reasons)}
            = {"High Temp", "High Vibration", "Errors"}
    /\ \E m \in LogMachineIds(state.sensor_logs) :
          FiredFactors(state.sensor_logs, m) = {"Errors", "Low Pressure"}

(***************************************************************************)
(* The read queries of the graph store.                                    *)
(***************************************************************************)
AffectedIds(result) == {r.affected_id : r \in DOMAIN result.affected_machines}

LineNames(result) == {r.line_name : r \in DOMAIN result.impacted_lines}

EdgesOf(triple) ==
    {e \in 1..Len(edges) :
        /\ nodes[edges[e].from].name = triple.from_name
        /\ edges[e].type = triple.relationship
        /\ nodes[edges[e].to].name = triple.to_name}

TriplesOfKind(rows, kind) ==
    BagCardinality([r \in {x \in DOMAIN rows : x.relationship = kind} |-> rows[r]])

IsFixtureGraph ==
    /\ nodes = FixtureNodes
    /\ Len(edges) = Len(FixtureEdges)
    /\ Range(edges) = Range(FixtureEdges)

\* C22: get_full_graph_summary returns one triple per edge of the graph, of
\* either kind, and no triple without an edge: a triple is returned as often
\* as there are edges with its endpoints and kind, and every edge has its
\* triple; on the fixture there are 9 triples, 4 DEPENDS_ON and 5 FEEDS_INTO.
C22_SummaryIsEveryEdge ==
    summary # None =>
        LET rows == summary[1]
        IN  /\ \A r \in DOMAIN rows :
                  /\ rows[r] = Cardinality(EdgesOf(r))
                  /\ rows[r] >= 1
            /\ \A e \in 1..Len(edges) :
                  [from_name    |-> nodes[edges[e].from].name,
                   relationship |-> edges[e].type,
                   to_name      |-> nodes[edges[e].to].name] \in DOMAIN rows
            /\ BagCardinality(rows) = Len(edges)
            /\ IsFixtureGraph =>
                  /\ BagCardinality(rows) = 9
                  /\ TriplesOfKind(rows, "DEPENDS_ON") = 4
                  /\ TriplesOfKind(rows, "FEEDS_INTO") = 5

\* the summary of the fixture
C22_Witness ==
    /\ summary # None
    /\ IsFixtureGraph
    /\ BagCardinality(summary[1]) = 9

(***************************************************************************)
(* The graph after a rebuild.                                              *)
(***************************************************************************)
NodesLabelled(label) == {i \in 1..Len(nodes) : nodes[i].label = label}

EdgesOfType(type) == {e \in 1..Len(edges) : edges[e].type = type}

RebuildDone == pc = "build_workflow"

\* C23: when a rebuild has completed, after whatever rebuilds before it,
\* every id is on exactly one node and the graph is the fixture: 5 machines,
\* 3 production lines, the 4 dependencies and the 5 feeds of
\* create_relationships, each once, and nothing else.
C23_RebuildGivesFixture ==
    RebuildDone =>
        /\ \A i, j \in 1..Len(nodes) : nodes[i].id = nodes[j].id => i = j
        /\ Len(nodes) = 8
        /\ Cardinality(NodesLabelled("Machine")) = 5
        /\ Cardinality(NodesLabelled("ProductionLine")) = 3
        /\ {nodes[i].id : i \in 1..Len(nodes)}
              = {"M001", "M002", "M003", "M004", "M005", "PL001", "PL002", "PL003"}
        /\ Len(edges) = 9
        /\ Cardinality(EdgesOfType("DEPENDS_ON")) = 4
        /\ Cardinality(EdgesOfType("FEEDS_INTO")) = 5
        /\ {<<nodes[edges[e].from].id, nodes[edges[e].to].id>> : e \in 1..Len(edges)}
              = {<<r.a, r.b>> : r \in Range(dependencies \o feeds)}
        /\ Cardinality({<<edges[e].from, edges[e].to>> : e \in 1..Len(edges)}) = 9

\* the third rebuild in a row has completed
C23_Witness ==
    /\ RebuildDone
    /\ rebuilds = 2
    /\ Len(nodes) = 8

(***************************************************************************)
(* What the narrative requests contain.                                    *)
(***************************************************************************)
\* part is the first characters of text, at most n of them, and all of text
\* when text has no more than n
IsPrefixUpTo(part, text, n) ==
    /\ part.body = text.body
    /\ part.len <= n
    /\ part.len <= text.len
    /\ text.len <= n => part.len = text.len
    /\ text.len > n => part.len = n

\* C24: the maintenance-plan request is the second request, made when the
\* root cause has been answered and stored, and holds that whole text; the
\* executive-summary request is the third, made when both narratives have
\* been answered and stored, and holds the first 400 characters of each (the
\* whole text when it is shorter).
C24_PromptsCarryEarlierOutput ==
    /\ Len(llm_calls) >= 2 =>
          /\ llm_calls[1].response # None
          /\ state.root_cause_analysis = llm_calls[1].response[1]
          /\ llm_calls[2].prompt.root_cause = llm_calls[1].response[1]
          /\ llm_calls[2].prompt.root_cause # EmptyText
    /\ Len(llm_calls) >= 3 =>
          /\ llm_calls[2].response # None
          /\ state.maintenance_plan = llm_calls[2].response[1]
          /\ IsPrefixUpTo(llm_calls[3].prompt.root_cause,
                          llm_calls[1].response[1], 400)
          /\ IsPrefixUpTo(llm_calls[3].prompt.maintenance_plan,
                          llm_calls[2].response[1], 400)

\* a root cause of 401 characters and a plan of 400
C24_Witness ==
    /\ Len(llm_calls) = 3
    /\ state.root_cause_analysis.len = 401
    /\ state.maintenance_plan.len = 400
    /\ llm_calls[3].prompt.root_cause.len = 400
    /\ llm_calls[3].prompt.maintenance_plan = state.maintenance_plan

\* every machine of the run was compared with the threshold of this run's
\* slider
ScoredWithOwnThreshold ==
    /\ locals # None
    /\ \A m \in DOMAIN state.failure_probability :
          m \in Range(state.failing_machines)
              <=> state.failure_probability[m] >= locals[1].threshold

\* C25: in a completed run, the tier of a machine in the saved report and
\* the status of the machine in the dashboard are CRITICAL iff the machine
\* is in failing_machines, whatever threshold the operator has set.
C25_CriticalIffFailing ==
    (report # None /\ ScoredWithOwnThreshold) =>
        \A m \in DOMAIN final_state[1].failure_probability :
            LET failing == m \in Range(final_state[1].failing_machines)
            IN  /\ report[1].risk[m].tier = "CRITICAL" <=> failing
                /\ get_status(final_state[1].failure_probability[m]) = "CRITICAL"
                      <=> failing

FactorValue(log, m, f) ==
    LET I == WindowIdx(log, m)
    IN  CASE f = "High Temp"      -> RoundDiv(Total(log, I, "temperature"), 10 * Cardinality(I))
          [] f = "High Vibration" -> RoundDiv(Total(log, I, "vibration"), 10 * Cardinality(I))
          [] f = "Errors"         -> ErrorsIn(log, I)
          [] f = "Low Pressure"   -> RoundDiv(Total(log, I, "pressure"), 10 * Cardinality(I))

\* C27: after ingest_sensor_logs, anomalies and failing_machines have the
\* same length and order; the anomaly at position i carries the id of
\* failing_machines[i], that machine's failure_probability and the reasons
\* computed for it, so no anomaly exists for a machine that is not failing.
C27_AnomaliesAlignWithFailing ==
    state.current_step = "sensor_done" =>
        LET an  == state.anomalies
            fm  == state.failing_machines
            log == state.sensor_logs
        IN  /\ Len(an) = Len(fm)
            /\ \A i \in 1..Len(an) :
                  /\ i \in DOMAIN fm
                  /\ an[i].machine_id = fm[i]
                  /\ an[i].failure_probability = state.failure_probability[fm[i]]
                  /\ ReasonsInOrder(an[i].reasons, FiredFactors(log, fm[i]))
                  /\ \A k \in 1..Len(an[i].reasons) :
                        an[i].reasons[k].value
                            = FactorValue(log, fm[i], an[i].reasons[k].factor)
            /\ \A i \in 1..Len(an) :
                  state.failure_probability[an[i].machine_id] >= Config.FAILURE_THRESHOLD

\* two failing machines with different scores
C27_Witness ==
    /\ state.current_step = "sensor_done"
    /\ Len(state.anomalies) = 2
    /\ state.anomalies[1].failure_probability # state.anomalies[2].failure_probability

\* C28: with the default threshold 0.75 a machine is failing iff temperature
\* and vibration both fired and errors or pressure fired too (0.80, 0.90 or
\* 1.00); temperature and vibration alone give 0.70 and every combination
\* lacking one of them at most 0.65, neither of which is failing.
C28_DefaultThresholdCombinations ==
    (state.current_step = "sensor_done" /\ Config.FAILURE_THRESHOLD = 75) =>
        \A m \in LogMachineIds(state.sensor_logs) :
            LET fired   == FiredFactors(state.sensor_logs, m)
                both    == {"High Temp", "High Vibration"} \subseteq fired
                third   == fired \cap {"Errors", "Low Pressure"} # {}
                failing == m \in Range(state.failing_machines)
                score   == state.failure_probability[m]
            IN  /\ failing <=> (both /\ third)
                /\ (both /\ third)  => score \in {80, 90, 100}
                /\ (both /\ ~third) => score = 70
                /\ ~both => score <= 65

\* at the default threshold, a machine at 0.70 that is not failing and a
\* machine at 0.80 that is
C28_Witness ==
    /\ state.current_step = "sensor_done"
    /\ Config.FAILURE_THRESHOLD = 75
    /\ \E m, n \in DOMAIN state.failure_probability :
          /\ state.failure_probability[m] = 70
          /\ m \notin Range(state.failing_machines)
          /\ state.failure_probability[n] = 80
          /\ n \in Range(state.failing_machines)

=============================================================================
